---- MODULE Spec2Model ----
(***************************************************************************)
(* cf_app_log_detector: the line grammar of src/lib.rs (nom 4 macros over  *)
(* a plain &str input) and the detector of src/main.rs (process_file,      *)
(* show_results, main).                                                    *)
(*                                                                         *)
(* Text is a sequence of one-character strings.  A nom result is a record  *)
(* whose kind is "Ok", "Error" or "Incomplete".  The input type is &str,   *)
(* for which nom 4 reports the end of the input as Incomplete (at_eof is   *)
(* false), and alt! and opt! only recover from Error: an Incomplete        *)
(* leaves them at once.                                                    *)
(***************************************************************************)
EXTENDS Integers, Sequences, FiniteSets, TLC

VARIABLES
    input,               \* text handed to a parser entry point
    called,              \* which entry point has run on input
    result,              \* its IResult
    trigger_percentage,  \* CfAppLogDetector.trigger_percentage
    one_line_match,      \* CfAppLogDetector.one_line_match
    total_log_lines,     \* CfAppLogDetector.total_log_lines
    log_lines_matching,  \* CfAppLogDetector.log_lines_matching
    file,                \* the file at the path: its lines, or a failure to open
    pos,                 \* lines the reader has yielded so far
    line,                \* the line of the current loop iteration
    pc,                  \* position in main
    ret,                 \* what process_file returned
    exit_code            \* status given to std::process::exit

vars == <<input, called, result, trigger_percentage, one_line_match,
          total_log_lines, log_lines_matching, file, pos, line, pc, ret,
          exit_code>>

parserVars == <<input, called, result>>

detectorVars == <<trigger_percentage, one_line_match, total_log_lines,
                  log_lines_matching, file, pos, line, pc, ret, exit_code>>

---------------------------------------------------------------------------
(* Bounds *)

MaxLines == 3      \* lines in a file of the scan
MaxTally == 50     \* largest total_log_lines handed to show_results alone
MaxTrigger == 101  \* trigger percentages 0..MaxTrigger

---------------------------------------------------------------------------
(* Text helpers *)

Digits == {"0", "1", "2", "3", "4", "5", "6", "7", "8", "9"}

DigitVal(c) ==
    CASE c = "0" -> 0 [] c = "1" -> 1 [] c = "2" -> 2 [] c = "3" -> 3
      [] c = "4" -> 4 [] c = "5" -> 5 [] c = "6" -> 6 [] c = "7" -> 7
      [] c = "8" -> 8 [] c = "9" -> 9

Drop(s, n) == SubSeq(s, n + 1, Len(s))

Take(s, n) == SubSeq(s, 1, n)

\* str::find of a one-character pattern: 1-based index of its first
\* occurrence, 0 when there is none.
FindSubstring(s, c) ==
    IF \E k \in 1..Len(s) : s[k] = c
    THEN CHOOSE k \in 1..Len(s) : s[k] = c /\ \A j \in 1..(k - 1) : s[j] # c
    ELSE 0

---------------------------------------------------------------------------
(* nom 4 results and combinators on &str *)

Ok(rest, val) == [kind |-> "Ok", rest |-> rest, val |-> val]

Error == [kind |-> "Error"]

Incomplete == [kind |-> "Incomplete"]

\* tag!(t): Compare for &str zips the two texts; a mismatch in the common
\* prefix is an Error, a matching input shorter than the tag is Incomplete.
Tag(i, t) ==
    IF \E k \in 1..(IF Len(i) < Len(t) THEN Len(i) ELSE Len(t)) : i[k] # t[k]
    THEN Error
    ELSE IF Len(i) >= Len(t) THEN Ok(Drop(i, Len(t)), t)
    ELSE Incomplete

\* the split of take_until! at index k of the pattern; no pattern in the
\* input (k = 0) is need_more_err, which is Incomplete for &str
SplitBefore(i, k) ==
    IF k = 0 THEN Incomplete ELSE Ok(Drop(i, k - 1), Take(i, k - 1))

\* the split of take_until_and_consume!: the pattern is consumed too
SplitAfter(i, k) ==
    IF k = 0 THEN Incomplete ELSE Ok(Drop(i, k), Take(i, k - 1))

TakeUntil(i, c) == SplitBefore(i, FindSubstring(i, c))

TakeUntilAndConsume(i, c) == SplitAfter(i, FindSubstring(i, c))

\* opt!(p) given p's result r on input i: Error becomes Ok(None) at i,
\* Incomplete is passed on.
Opt(i, r) ==
    IF r.kind = "Ok" THEN Ok(r.rest, <<r.val>>)
    ELSE IF r.kind = "Error" THEN Ok(i, <<>>)
    ELSE r

\* alt!(a | b): only an Error of a moves on to b
Alt(a, b) == IF a.kind = "Error" THEN b ELSE a

\* do_parse!(r >> next): the next parser runs only after an Ok r; any
\* other r is the result of the sequence
Then(r, next) == IF r.kind = "Ok" THEN next ELSE r

\* do_parse!: t's value is dropped, v is carried on
Keep(v, t) == IF t.kind = "Ok" THEN Ok(t.rest, v) ELSE t

\* do_parse!: t's value is bound, after the values bound so far
Push(acc, t) == IF t.kind = "Ok" THEN Ok(t.rest, Append(acc, t.val)) ELSE t

\* p => { |_| v }
MapTo(t, v) == IF t.kind = "Ok" THEN Ok(t.rest, v) ELSE t

\* flat_map!/map_res!: the inner result n, with the outer remainder
WithRest(n, rest) == IF n.kind = "Ok" THEN Ok(rest, n.val) ELSE n

---------------------------------------------------------------------------
(* str::parse::<u32>, used by parse_to!(u32) *)

AllDigits(s, a, b) == \A k \in a..b : s[k] \in Digits

RECURSIVE StripZeros(_)
StripZeros(s) ==
    IF Len(s) > 1 /\ s[1] = "0" THEN StripZeros(Tail(s)) ELSE s

\* a <= b for two numerals of the same length
RECURSIVE NumeralLeq(_, _)
NumeralLeq(a, b) ==
    IF a = <<>> THEN TRUE
    ELSE IF DigitVal(a[1]) < DigitVal(b[1]) THEN TRUE
    ELSE IF DigitVal(a[1]) > DigitVal(b[1]) THEN FALSE
    ELSE NumeralLeq(Tail(a), Tail(b))

U32MaxDigits ==
    <<"4","2","9","4","9","6","7","2","9","5">>

\* the overflow check, on a numeral without leading zeros
U32InRange(num) ==
    IF Len(num) > Len(U32MaxDigits) THEN Error
    ELSE IF Len(num) = Len(U32MaxDigits) /\ ~NumeralLeq(num, U32MaxDigits)
    THEN Error
    ELSE Ok(<<>>, num)

U32OfDigits(body) ==
    IF body = <<>> \/ ~AllDigits(body, 1, Len(body)) THEN Error
    ELSE U32InRange(StripZeros(body))

\* u32::from_str: one optional "+", then one digit or more, no overflow.
\* The value is kept as its numeral without leading zeros (<<"0">> is 0),
\* which is exact over the whole of u32.
ParseToU32(s) ==
    U32OfDigits(IF s # <<>> /\ s[1] = "+" THEN Tail(s) ELSE s)

ParseTaken(r) == Then(r, WithRest(ParseToU32(r.val), r.rest))

\* flat_map!(take_until!("]"), parse_to!(u32))
IndexBeforeBracket(i) == ParseTaken(TakeUntil(i, "]"))

---------------------------------------------------------------------------
(* chrono: DateTime::parse_from_str(s, "%Y-%m-%dT%H:%M:%S%.f%z").  Texts   *)
(* in the fixed-width layout YYYY-MM-DDTHH:MM:SS[.f...](+|-)HHMM are       *)
(* accepted, with each field in its range (the length of the month is not  *)
(* looked at); every other text is an error.                               *)

Num2(s, a) == 10 * DigitVal(s[a]) + DigitVal(s[a + 1])

\* digits directly after position a
RECURSIVE DigitRun(_, _)
DigitRun(s, a) ==
    IF a <= Len(s) /\ s[a] \in Digits THEN 1 + DigitRun(s, a + 1) ELSE 0

\* the first k places of a fraction of n digits starting at position a, as
\* a whole number (nine places: nanoseconds)
RECURSIVE Nanos(_, _, _, _)
Nanos(s, a, n, k) ==
    IF k = 0 THEN 0
    ELSE (IF n > 0 THEN DigitVal(s[a]) ELSE 0) * (10 ^ (k - 1))
         + Nanos(s, a + 1, IF n > 0 THEN n - 1 ELSE 0, k - 1)

\* %Y-%m-%dT%H:%M:%S on the first nineteen characters
DateTimeHead(s) ==
    /\ AllDigits(s, 1, 4) /\ s[5] = "-"
    /\ AllDigits(s, 6, 7) /\ s[8] = "-"
    /\ AllDigits(s, 9, 10) /\ s[11] = "T"
    /\ AllDigits(s, 12, 13) /\ s[14] = ":"
    /\ AllDigits(s, 15, 16) /\ s[17] = ":"
    /\ AllDigits(s, 18, 19)
    /\ Num2(s, 6) \in 1..12 /\ Num2(s, 9) \in 1..31
    /\ Num2(s, 12) \in 0..23 /\ Num2(s, 15) \in 0..59
    /\ Num2(s, 18) \in 0..60

\* %.f%z: a fraction of frac digits, and the offset at position z
DateTimeTail(s, frac, z) ==
    IF /\ (s[20] = "." => frac >= 1)
       /\ Len(s) = z + 4
       /\ s[z] \in {"+", "-"}
       /\ AllDigits(s, z + 1, z + 4)
       /\ Num2(s, z + 1) \in 0..23 /\ Num2(s, z + 3) \in 0..59
    THEN Ok(<<>>,
            [year   |-> 100 * Num2(s, 1) + Num2(s, 3),
             month  |-> Num2(s, 6), day |-> Num2(s, 9),
             hour   |-> Num2(s, 12), minute |-> Num2(s, 15),
             second |-> Num2(s, 18),
             nanos  |-> Nanos(s, 21, frac, 9),
             offset |-> (IF s[z] = "+" THEN 1 ELSE -1)
                        * (3600 * Num2(s, z + 1) + 60 * Num2(s, z + 3))])
    ELSE Error

FractionDigits(s) == IF s[20] = "." THEN DigitRun(s, 21) ELSE 0

DateTimeParse(s) ==
    IF Len(s) >= 24 /\ DateTimeHead(s)
    THEN DateTimeTail(s, FractionDigits(s), 20 + (IF s[20] = "." THEN 1 ELSE 0)
                                               + FractionDigits(s))
    ELSE Error

---------------------------------------------------------------------------
(* src/lib.rs *)

ParseTimestampTaken(r) ==
    Then(r, WithRest(DateTimeParse(r.val), r.rest))

\* map_res!(take_until!(" "), DateTime::parse_from_str)
parse_date(i) == ParseTimestampTaken(TakeUntil(i, " "))

\* the alternatives of parse_component_name, in the order of the alt!
ComponentNames ==
    << <<<<"A","P","P">>, "APPLICATION">>,
       <<<<"A","P","I">>, "API">>,
       <<<<"S","T","G">>, "STAGING">>,
       <<<<"R","T","R">>, "ROUTER">>,
       <<<<"L","G","R">>, "LOGGREGATOR">>,
       <<<<"S","S","H">>, "SSH">>,
       <<<<"C","E","L","L">>, "CELL">> >>

\* alt! over the tags from alternative k on: the first result that is not
\* an Error is the result
RECURSIVE AltComponentName(_, _)
AltComponentName(i, k) ==
    IF k > Len(ComponentNames) THEN Error
    ELSE Alt(MapTo(Tag(i, ComponentNames[k][1]), ComponentNames[k][2]),
             AltComponentName(i, k + 1))

parse_component_name(i) == AltComponentName(i, 1)

Valid(name, index) == [tag |-> "Valid", name |-> name, index |-> index]

Invalid(text) == [tag |-> "Invalid", text |-> text]

MakeValid(name, n) ==
    IF n.kind = "Ok" THEN Ok(n.rest, Valid(name, n.val)) ELSE n

MakeInvalid(p) == IF p.kind = "Ok" THEN Ok(p.rest, Invalid(p.val)) ELSE p

\* the steps of the do_parse! sequences of parse_component, each applied to
\* the result r of the step before
OpenBracket(i) == Tag(i, <<"[">>)

NameStep(r) == Then(r, parse_component_name(r.rest))

SlashStep(r) == Then(r, Keep(r.val, Tag(r.rest, <<"/">>)))

SegmentStep(r) ==
    Then(r, Keep(r.val, Opt(r.rest, TakeUntilAndConsume(r.rest, "/"))))

IndexStep(r) == Then(r, MakeValid(r.val, IndexBeforeBracket(r.rest)))

VerbatimStep(r) == Then(r, MakeInvalid(TakeUntil(r.rest, "]")))

CloseBracket(r) == Then(r, Keep(r.val, Tag(r.rest, <<"]">>)))

\* first alternative: "[" NAME "/" INDEX "]"
ComponentNameIndex(i) ==
    CloseBracket(IndexStep(SlashStep(NameStep(OpenBracket(i)))))

\* second alternative: "[" NAME "/" opt(.../) opt(.../) INDEX "]"
ComponentNameSegmentsIndex(i) ==
    CloseBracket(IndexStep(SegmentStep(SegmentStep(
        SlashStep(NameStep(OpenBracket(i)))))))

\* third alternative: "[" anything-but-"]" "]"
ComponentVerbatim(i) ==
    CloseBracket(VerbatimStep(OpenBracket(i)))

parse_component(i) ==
    Alt(ComponentNameIndex(i),
        Alt(ComponentNameSegmentsIndex(i), ComponentVerbatim(i)))

parse_channel(i) ==
    Alt(MapTo(Tag(i, <<"O","U","T">>), "STDOUT"),
        MapTo(Tag(i, <<"E","R","R">>), "STDERR"))

\* Option<&str>: <<>> is None, <<m>> is Some(m)
parse_message(i) ==
    IF Len(i) > 0 THEN Ok(<<>>, <<i>>) ELSE Ok(<<>>, <<>>)

\* many0!(tag!(" ")): Error ends the loop, Incomplete leaves it
RECURSIVE Many0Space(_)
Many0Step(i, r) ==
    IF r.kind = "Ok" THEN Many0Space(r.rest)
    ELSE IF r.kind = "Error" THEN Ok(i, <<>>)
    ELSE r

Many0Space(i) == Many0Step(i, Tag(i, <<" ">>))

\* alt!(not!(complete!(non_empty)) | tag!(" ")): nothing left, or one space
Separator(i) ==
    IF Len(i) = 0 THEN Ok(i, <<>>) ELSE Tag(i, <<" ">>)

\* the steps of parse_cf_app_log's do_parse!, each applied to the result r
\* of the step before; r.val holds the fields bound so far, in order
TimestampField(r) == Then(r, Push(<<>>, parse_date(r.rest)))

SpaceStep(r) == Then(r, Keep(r.val, Tag(r.rest, <<" ">>)))

ComponentField(r) == Then(r, Push(r.val, parse_component(r.rest)))

ChannelField(r) == Then(r, Push(r.val, parse_channel(r.rest)))

SeparatorStep(r) == Then(r, Keep(r.val, Separator(r.rest)))

MessageField(r) == Then(r, Push(r.val, parse_message(r.rest)))

CfAppLogEntry(r) ==
    Then(r, Ok(r.rest, [timestamp |-> r.val[1], component |-> r.val[2],
                        channel |-> r.val[3], message |-> r.val[4]]))

parse_cf_app_log(i) ==
    CfAppLogEntry(MessageField(SeparatorStep(ChannelField(SpaceStep(
        ComponentField(SpaceStep(TimestampField(Many0Space(i)))))))))

---------------------------------------------------------------------------
(* src/main.rs: CfAppLogDetector *)

\* strip_ansi_escapes::strip on a line: printable text is kept, an escape
\* sequence (ESC "[" parameters final-character, or ESC and one character)
\* is dropped.  "ESC" stands for the one character U+001B.
RECURSIVE SkipCsi(_)
SkipCsi(s) ==
    IF s = <<>> THEN <<>>
    ELSE IF s[1] \in Digits \cup {";"} THEN SkipCsi(Tail(s))
    ELSE Tail(s)

RECURSIVE StripAnsi(_)
StripAnsi(s) ==
    IF s = <<>> THEN <<>>
    ELSE IF s[1] # "ESC" THEN <<s[1]>> \o StripAnsi(Tail(s))
    ELSE IF Len(s) >= 2 /\ s[2] = "[" THEN StripAnsi(SkipCsi(Drop(s, 2)))
    ELSE StripAnsi(Drop(s, 2))

\* parse_line: Err when stripping or the UTF-8 conversion fails, otherwise
\* Ok(true) for a line that parses and Ok(false) for one that does not.
parse_line(l) ==
    IF ~l.strip_ok THEN [kind |-> "Err"]
    ELSE [kind |-> "Ok",
          val  |-> parse_cf_app_log(StripAnsi(l.text)).kind = "Ok"]

\* IEEE-754 double evaluation of (m as f64 / t as f64 * 100.0).floor() for
\* 0 <= m <= t, t > 0.  The quotient and the product are each rounded to
\* the nearest double; the floor differs from the exact floor(100m/t) only
\* when 100m/t is a whole number k and the rounded product lands just
\* below k, which of k = 0..100 happens for 29, 57 and 58
\* (0.29 * 100.0 = 28.999999999999996).
RoundsBelow == {29, 57, 58}

F64FloorPercent(m, t) ==
    LET k == (100 * m) \div t
    IN  IF (100 * m) % t = 0 /\ k \in RoundsBelow THEN k - 1 ELSE k

percentage_matching(total, matching) ==
    IF total > 0 THEN F64FloorPercent(matching, total) ELSE 0

\* matching_verdict with > in place of >=
matching_verdict_strict(total, matching, trigger, olm) ==
    \/ percentage_matching(total, matching) > trigger
    \/ (matching > 0 /\ olm)

\* the local `matching` of show_results
matching_verdict(total, matching, trigger, olm) ==
    \/ percentage_matching(total, matching) >= trigger
    \/ (matching > 0 /\ olm)

\* show_results' return value
show_results(total, matching, trigger, olm) ==
    IF matching_verdict(total, matching, trigger, olm) THEN 0 ELSE 1

---------------------------------------------------------------------------
(* Inputs *)

TsFrac ==
    <<"2","0","2","1","-","0","9","-","2","8","T","1","7",":","0","0",":","0","9",".","3","6","+","0","9","0","0">>

TsPlain ==
    <<"2","0","2","1","-","0","9","-","2","8","T","1","1",":","5","8",":","4","2","+","0","9","0","0">>

TsOther ==
    <<"[","1","0","/","O","c","t","/","2","0","0","0",":","1","3",":","5","5",":","3","6","]">>

Leads == { <<>>, <<" ">>, <<" ", " ">> }

Timestamps == {TsFrac, TsPlain, TsOther}

\* texts between the brackets of the component field
Interiors ==
    { <<"A","P","I","/","0">>,
      <<"A","P","P","/","0">>,
      <<"A","P","P","/","W","E","B","/","0">>,
      <<"A","P","P","/","P","R","O","C","/","W","E","B","/","0">>,
      <<"F","O","O","/","0">>,
      <<"A","P","P","/","a","b","c">>,
      <<"A","P","P">>,
      <<"A","P","P","/">>,
      <<"C","E","L","L","/","1","2">>,
      <<"A","P","P","/","+","0">>,
      <<>>,
      <<"R","T","R","/","0">>,
      <<"A","P","P","/","a","/","b","/","c","/","0">>,
      <<"S","T","G","/","x","/","1">> }

\* message payloads
Payloads ==
    { <<"x">>,
      <<" ","x">>,
      <<"a","/","b">>,
      <<"a","/","1","]"," ","O","U","T"," ","m">>,
      <<"a","/","b","/","7","]"," ","E","R","R"," ","m">>,
      <<"]">>,
      <<"a","/","]">> }

\* other texts after the closing bracket
Tails ==
    { <<>>,
      <<" ","O","U","T">>,
      <<" ","E","R","R">>,
      <<" ","O","U","T"," ">>,
      <<" ","O","U","T","X">>,
      <<" ","F","O","O">>,
      <<" ","F","O","O"," ","a","/","1","]"," ","O","U","T"," ","m">>,
      <<"O","U","T">>,
      <<" ","O","U">> }

\* lines that lack a field
OtherLines ==
    { <<>>,
      <<" "," "," ">>,
      <<"h","e","l","l","o"," ","w","o","r","l","d">>,
      <<"2","0","2","1","-","0","9","-","2","8","T","1","7",":","0","0",":","0","9",".","3","6","+","0","9","0","0">>,
      <<"2","0","2","1","-","0","9","-","2","8","T","1","7",":","0","0",":","0","9",".","3","6","+","0","9","0","0"," ">>,
      <<"2","0","2","1","-","0","9","-","2","8","T","1","7",":","0","0",":","0","9",".","3","6","+","0","9","0","0"," ","[","A","P","P","/","0">>,
      <<"2","0","2","1","-","0","9","-","2","8","T","1","7",":","0","0",":","0","9",".","3","6","+","0","9","0","0","[","A","P","P","/","0","]"," ","O","U","T">> }


OutSp == <<" ","O","U","T"," ">>

ErrSp == <<" ","E","R","R"," ">>

\* what follows the closing bracket
Afters ==
    Tails \cup {OutSp \o p : p \in Payloads} \cup {ErrSp \o p : p \in Payloads}

\* "[" interior "]" and the rest of the line
ComponentTexts ==
    {<<"[">> \o x \o <<"]">> \o a : x \in Interiors, a \in Afters}

Lines ==
    {l \o t \o <<" ">> \o c : l \in Leads, t \in Timestamps,
                              c \in ComponentTexts}
        \cup OtherLines

GoodLine ==
    TsFrac \o <<" ","[","R","T","R","/","0","]"," ","O","U","T">>

\* a line as the reader yields it: read_ok is FALSE when reading it fails
\* (line?), strip_ok is FALSE when parse_line's stripping fails
FileLine(text, read_ok, strip_ok) ==
    [text |-> text, read_ok |-> read_ok, strip_ok |-> strip_ok]

FileLines ==
    { FileLine(GoodLine, TRUE, TRUE),
      FileLine(<<"ESC","[","0","m">> \o GoodLine, TRUE, TRUE),
      FileLine(<<"h","e","l","l","o">>, TRUE, TRUE),
      FileLine(<<"h","e","l","l","o">>, TRUE, FALSE),
      FileLine(<<>>, FALSE, TRUE) }

RECURSIVE SeqsUpTo(_, _)
SeqsUpTo(S, n) ==
    IF n = 0 THEN {<<>>}
    ELSE LET shorter == SeqsUpTo(S, n - 1)
         IN  shorter \cup {Append(q, x) : q \in shorter, x \in S}

\* what fs::File::open finds at the path
Files ==
    {[status |-> "Ok", lines |-> q] : q \in SeqsUpTo(FileLines, MaxLines)}
        \cup {[status |-> "NotFound", lines |-> <<>>],
              [status |-> "PermissionDenied", lines |-> <<>>]}

NoLine == FileLine(<<>>, TRUE, TRUE)

NoFile == [status |-> "Ok", lines |-> <<>>]

---------------------------------------------------------------------------
(* The parser entry points applied to one text *)

ParserIdle ==
    /\ input = <<>>
    /\ called = "none"
    /\ result = Error

DetectorIdle ==
    /\ trigger_percentage = 0
    /\ one_line_match = FALSE
    /\ total_log_lines = 0
    /\ log_lines_matching = 0
    /\ file = NoFile
    /\ pos = 0
    /\ line = NoLine
    /\ pc = "idle"
    /\ ret = "none"
    /\ exit_code = -1

InitParser ==
    /\ input \in Lines \cup ComponentTexts
    /\ called = "none"
    /\ result = Error
    /\ DetectorIdle

CallParseCfAppLog ==
    /\ called = "none"
    /\ input \in Lines
    /\ called' = "parse_cf_app_log"
    /\ result' = parse_cf_app_log(input)
    /\ UNCHANGED <<input, detectorVars>>

CallParseComponent ==
    /\ called = "none"
    /\ input \in ComponentTexts
    /\ called' = "parse_component"
    /\ result' = parse_component(input)
    /\ UNCHANGED <<input, detectorVars>>

NextParser == CallParseCfAppLog \/ CallParseComponent

SpecParser == InitParser /\ [][NextParser]_vars

---------------------------------------------------------------------------
(* main: new, process_file, show_results, exit *)

\* CfAppLogDetector::new with the command line's values, before
\* process_file opens the path
Init ==
    /\ trigger_percentage \in 0..MaxTrigger
    /\ one_line_match \in BOOLEAN
    /\ total_log_lines = 0
    /\ log_lines_matching = 0
    /\ file \in Files
    /\ pos = 0
    /\ line = NoLine
    /\ pc = "open"
    /\ ret = "none"
    /\ exit_code = -1
    /\ ParserIdle

\* process_file: fs::File::open(path)?
OpenFile ==
    /\ pc = "open"
    /\ IF file.status = "Ok"
       THEN pc' = "loop" /\ ret' = ret
       ELSE pc' = "returned" /\ ret' = file.status
    /\ UNCHANGED <<parserVars, trigger_percentage, one_line_match,
                   total_log_lines, log_lines_matching, file, pos, line,
                   exit_code>>

\* process_file: one iteration of `for line in reader.lines()`
ProcessLine ==
    /\ pc = "loop"
    /\ pos < Len(file.lines)
    /\ LET l == file.lines[pos + 1]
           r == parse_line(l)
       IN  /\ pos' = pos + 1
           /\ line' = l
           /\ IF ~l.read_ok
              THEN /\ ret' = "InvalidData"
                   /\ pc' = "returned"
                   /\ UNCHANGED <<total_log_lines, log_lines_matching>>
              ELSE IF r.kind = "Ok"
              THEN /\ total_log_lines' = total_log_lines + 1
                   /\ log_lines_matching' = log_lines_matching + 1
                   /\ IF one_line_match
                      THEN pc' = "returned" /\ ret' = "Ok"
                      ELSE pc' = pc /\ ret' = ret
              ELSE /\ total_log_lines' = total_log_lines + 1
                   /\ log_lines_matching' = log_lines_matching
                   /\ pc' = pc /\ ret' = ret
    /\ UNCHANGED <<parserVars, trigger_percentage, one_line_match, file,
                   exit_code>>

\* process_file: the reader is exhausted, Ok(())
EndOfFile ==
    /\ pc = "loop"
    /\ pos = Len(file.lines)
    /\ pc' = "returned"
    /\ ret' = "Ok"
    /\ UNCHANGED <<parserVars, trigger_percentage, one_line_match,
                   total_log_lines, log_lines_matching, file, pos, line,
                   exit_code>>

ExitNotFound == 1

ExitFailed == 2

\* main: Err(e) with e.kind() == NotFound
MainNotFound ==
    /\ pc = "returned"
    /\ ret = "NotFound"
    /\ exit_code' = ExitNotFound
    /\ pc' = "exit"
    /\ UNCHANGED <<parserVars, trigger_percentage, one_line_match,
                   total_log_lines, log_lines_matching, file, pos, line, ret>>

\* main: any other Err(e)
MainFailed ==
    /\ pc = "returned"
    /\ ret \notin {"Ok", "NotFound"}
    /\ exit_code' = ExitFailed
    /\ pc' = "exit"
    /\ UNCHANGED <<parserVars, trigger_percentage, one_line_match,
                   total_log_lines, log_lines_matching, file, pos, line, ret>>

\* main: std::process::exit(detector.show_results(..))
ShowResults ==
    /\ pc = "returned"
    /\ ret = "Ok"
    /\ exit_code' = show_results(total_log_lines, log_lines_matching,
                                 trigger_percentage, one_line_match)
    /\ pc' = "exit"
    /\ UNCHANGED <<parserVars, trigger_percentage, one_line_match,
                   total_log_lines, log_lines_matching, file, pos, line, ret>>

Next ==
    \/ OpenFile
    \/ ProcessLine
    \/ EndOfFile
    \/ MainNotFound
    \/ MainFailed
    \/ ShowResults

Spec == Init /\ [][Next]_vars

---------------------------------------------------------------------------
(* show_results applied to the tallies a scan can leave behind *)

\* a file of t lines that leaves the tally (t, m): m lines that parse_line
\* returns Ok for and t - m lines whose stripping fails; with
\* stop_on_first_match the Ok line is the last one read
OkLine == FileLine(<<>>, TRUE, TRUE)

FailedLine == FileLine(<<>>, TRUE, FALSE)

TallyLines(t, m, olm) ==
    [k \in 1..t |->
        IF olm
        THEN (IF k > t - m THEN OkLine ELSE FailedLine)
        ELSE (IF k <= m THEN OkLine ELSE FailedLine)]

\* process_file has returned Ok(()) on such a file
InitVerdict ==
    /\ trigger_percentage \in 0..MaxTrigger
    /\ one_line_match \in BOOLEAN
    /\ total_log_lines \in 0..MaxTally
    /\ log_lines_matching \in 0..total_log_lines
    /\ one_line_match => log_lines_matching <= 1
    /\ file = [status |-> "Ok",
               lines |-> TallyLines(total_log_lines, log_lines_matching,
                                    one_line_match)]
    /\ pos = total_log_lines
    /\ line = (IF pos = 0 THEN NoLine ELSE file.lines[pos])
    /\ pc = "returned"
    /\ ret = "Ok"
    /\ exit_code = -1
    /\ ParserIdle

SpecVerdict == InitVerdict /\ [][ShowResults]_vars

---------------------------------------------------------------------------
(* The grammar of a line as the specification words it, for the claims:    *)
(* leading spaces, a timestamp up to the next space, "[" interior "]"      *)
(* closed by the first "]", and what follows that bracket.                 *)

NoFields == [ok |-> FALSE, interior |-> <<>>, after |-> <<>>]

BracketAt(c, j) ==
    IF j > 0 /\ c[1] = "["
    THEN [ok |-> TRUE, interior |-> SubSeq(c, 2, j - 1), after |-> Drop(c, j)]
    ELSE NoFields

\* the fields of a text that starts at the component field
BracketFields(c) == BracketAt(c, FindSubstring(c, "]"))

TimestampAt(s, k) ==
    IF k > 0 /\ DateTimeParse(Take(s, k - 1)).kind = "Ok"
    THEN BracketFields(Drop(s, k))
    ELSE NoFields

RECURSIVE SkipLeadingSpaces(_)
SkipLeadingSpaces(s) ==
    IF s # <<>> /\ s[1] = " " THEN SkipLeadingSpaces(Tail(s)) ELSE s

TimestampThenBracket(s) == TimestampAt(s, FindSubstring(s, " "))

\* the fields of a whole line
LineFields(l) == TimestampThenBracket(SkipLeadingSpaces(l))

RECURSIVE Split(_, _)
SplitAt(s, c, k) ==
    IF k = 0 THEN <<s>> ELSE <<Take(s, k - 1)>> \o Split(Drop(s, k), c)

Split(s, c) == SplitAt(s, c, FindSubstring(s, c))

NameTexts == {ComponentNames[k][1] : k \in DOMAIN ComponentNames}

ComponentOf(t) ==
    ComponentNames[CHOOSE k \in DOMAIN ComponentNames :
                       ComponentNames[k][1] = t][2]

\* NAME/INDEX or NAME/seg/INDEX or NAME/seg/seg/INDEX, on the "/"-separated
\* parts p of an interior; the index is digits only
StructuredParts(p) ==
    /\ Len(p) \in 2..4
    /\ p[1] \in NameTexts
    /\ p[Len(p)] # <<>>
    /\ AllDigits(p[Len(p)], 1, Len(p[Len(p)]))

Structured(x) == StructuredParts(Split(x, "/"))

ExpectedValid(p) == Valid(ComponentOf(p[1]), StripZeros(p[Len(p)]))

ChannelTokens == { <<"O","U","T">>, <<"E","R","R">> }

\* after the bracket: one space, OUT or ERR, then nothing or a space
ChannelWellFormed(a) ==
    /\ Len(a) >= 4
    /\ a[1] = " "
    /\ SubSeq(a, 2, 4) \in ChannelTokens
    /\ (Len(a) = 4 \/ a[5] = " ")

ChannelOf(t) == IF t = <<"O","U","T">> THEN "STDOUT" ELSE "STDERR"

OptionOf(t) == IF t = <<>> THEN <<>> ELSE <<t>>

IsInvalid(v, x) == v.tag = "Invalid" /\ v.text = x

IsValid(v, e) == v.tag = "Valid" /\ v.name = e.name /\ v.index = e.index

SameComponent(a, b) ==
    /\ a.tag = b.tag
    /\ a.tag = "Valid" => (a.name = b.name /\ a.index = b.index)
    /\ a.tag = "Invalid" => a.text = b.text

SameOutcome(a, b) ==
    /\ (a.kind = "Ok") = (b.kind = "Ok")
    /\ (a.kind = "Ok" /\ b.kind = "Ok")
           => SameComponent(a.val.component, b.val.component)

\* a line parses when it is read, stripped, and parse_cf_app_log is Ok
LineParses(l) ==
    /\ l.read_ok
    /\ l.strip_ok
    /\ parse_cf_app_log(StripAnsi(l.text)).kind = "Ok"

\* 1-based position of the first line that parses, 0 when none does
FirstParsing(ls) ==
    IF \E k \in 1..Len(ls) : LineParses(ls[k])
    THEN CHOOSE k \in 1..Len(ls) :
             LineParses(ls[k]) /\ \A j \in 1..(k - 1) : ~LineParses(ls[j])
    ELSE 0

\* floor(matching / total * 100) in exact arithmetic
ExactPercentage(total, matching) ==
    IF total > 0 THEN (100 * matching) \div total ELSE 0

Scanned == pc \in {"returned", "exit"} /\ ret = "Ok"

---------------------------------------------------------------------------
(* Claims *)

\* C1: once show_results has returned, the file is classified as matching
\* (return value 0) if and only if percentage >= trigger_percentage or
\* (matching_lines > 0 and stop_on_first_match), with percentage the exact
\* floor(matching_lines / total_lines * 100), 0 when total_lines = 0.
C1_VerdictFormula ==
    (pc = "exit" /\ ret = "Ok") =>
        ((exit_code = 0) <=>
            \/ ExactPercentage(total_log_lines, log_lines_matching)
                   >= trigger_percentage
            \/ (log_lines_matching > 0 /\ one_line_match))

C2Tally(ls, first) ==
    IF one_line_match
    THEN /\ total_log_lines = (IF first > 0 THEN first ELSE Len(ls))
         /\ log_lines_matching = (IF first > 0 THEN 1 ELSE 0)
    ELSE total_log_lines = Len(ls)

\* C2: at the end of process_file, with stop_on_first_match set total_lines
\* is the position of the first line that parses (the number of lines when
\* none parses) and matching_lines is 1 or 0 accordingly; without it
\* total_lines is the number of lines.
C2_StopsAtFirstMatch ==
    Scanned => C2Tally(file.lines, FirstParsing(file.lines))

C3Premise ==
    /\ pc = "exit"
    /\ ret = "Ok"
    /\ file.lines = <<>>
    /\ trigger_percentage \in 0..100

C3Counts ==
    /\ total_log_lines = 0
    /\ log_lines_matching = 0
    /\ percentage_matching(total_log_lines, log_lines_matching) = 0

\* C3 as stated: an empty file yields total_lines = 0, matching_lines = 0,
\* percentage 0 and a negative verdict (return value 1), for every
\* trigger_percentage in 0..100 and both values of stop_on_first_match.
C3_EmptyFileNegative == C3Premise => (C3Counts /\ exit_code = 1)

\* C3 amended: an empty file yields total_lines = 0, matching_lines = 0 and
\* percentage 0; the verdict is negative for every trigger_percentage in
\* 1..100 and positive for trigger_percentage 0 (0 >= 0), for both values
\* of stop_on_first_match.
C3_EmptyFileNegativeAboveZero ==
    C3Premise =>
        (C3Counts /\ exit_code = (IF trigger_percentage = 0 THEN 0 ELSE 1))

\* C3 witness: an empty file has been scanned under the default threshold
\* and stop_on_first_match, and main has exited with the negative verdict.
C3_EmptyFileScanned ==
    /\ C3Premise
    /\ file.status = "Ok"
    /\ pos = 0
    /\ trigger_percentage = 90
    /\ one_line_match
    /\ exit_code = 1

Outcomes == {"not_found", "not_cf_log", "cf_log"}

\* which of the three outcomes main has exited with ("failed": another
\* error of process_file)
Outcome ==
    IF ret = "NotFound" THEN "not_found"
    ELSE IF ret # "Ok" THEN "failed"
    ELSE IF matching_verdict(total_log_lines, log_lines_matching,
                             trigger_percentage, one_line_match)
    THEN "cf_log"
    ELSE "not_cf_log"

\* the exit code main gives an outcome
CodeOf(o) ==
    CASE o = "not_found" -> ExitNotFound
      [] o = "not_cf_log" -> show_results(0, 0, 1, FALSE)
      [] o = "cf_log" -> show_results(1, 1, 1, FALSE)

\* C4: the exit codes of "file not found", "not a CF log" and "CF log" are
\* pairwise distinct: the code main exits with is the code of no other
\* outcome.
C4_ExitCodesDistinct ==
    (pc = "exit" /\ Outcome \in Outcomes) =>
        \A o \in Outcomes \ {Outcome} : exit_code # CodeOf(o)

C5Component(f, r) ==
    (f.ok /\ ~Structured(f.interior)) =>
        (r.kind = "Ok" /\ IsInvalid(r.val, f.interior))

C5Line(f, r) ==
    (f.ok /\ ~Structured(f.interior) /\ ChannelWellFormed(f.after)) =>
        (r.kind = "Ok" /\ IsInvalid(r.val.component, f.interior))

\* C5: for every bracketed component [X] whose interior matches neither
\* structured form, parse_component is Ok with the unrecognized component
\* X, and a line that is otherwise well formed parses with that component.
C5_FallbackNeverFails ==
    /\ called = "parse_component" => C5Component(BracketFields(input), result)
    /\ called = "parse_cf_app_log" => C5Line(LineFields(input), result)

C6Component(f, r) ==
    (f.ok /\ Structured(f.interior)) =>
        /\ r.kind = "Ok"
        /\ IsValid(r.val, ExpectedValid(Split(f.interior, "/")))
        /\ r.rest = f.after

\* C6: a bracketed component NAME/INDEX, NAME/seg/INDEX or
\* NAME/seg/seg/INDEX parses to the recognized component of NAME with that
\* index and leaves what follows the closing bracket, whatever it is.
C6_SegmentsSkipped ==
    called = "parse_component" => C6Component(BracketFields(input), result)

C7Line(f, r) ==
    r.kind = "Ok" =>
        /\ f.ok
        /\ r.rest = <<>>
        /\ r.val.message = OptionOf(Drop(f.after, 5))
        /\ r.val.message # << <<>> >>

\* C7: in every successful parse the message is absent exactly when nothing
\* follows the channel token and its one separating space, otherwise it is
\* the whole remainder of the line after that space; it is never the empty
\* string, and the remaining text is empty.
C7_MessageIsRemainder ==
    called = "parse_cf_app_log" => C7Line(LineFields(input), result)

C8Line(f, r) ==
    /\ (f.ok /\ ~ChannelWellFormed(f.after)) => r.kind # "Ok"
    /\ r.kind = "Ok" =>
           /\ r.val.channel \in {"STDOUT", "STDERR"}
           /\ f.ok
           /\ ChannelWellFormed(f.after)
           /\ r.val.channel = ChannelOf(SubSeq(f.after, 2, 4))

\* C8: a line whose channel position holds anything but OUT or ERR, or
\* whose OUT/ERR is directly followed by a character other than a space, is
\* no match; a successful parse carries STDOUT for OUT and STDERR for ERR.
C8_ChannelTokens ==
    called = "parse_cf_app_log" => C8Line(LineFields(input), result)

C9Step ==
    (pos' = pos + 1 /\ line'.read_ok) =>
        /\ total_log_lines' = total_log_lines + 1
        /\ log_lines_matching' =
               log_lines_matching + (IF LineParses(line') THEN 1 ELSE 0)

\* C9: during a scan matching_lines <= total_lines, neither counter
\* decreases, and each consumed line adds exactly 1 to total_lines and 1 to
\* matching_lines if it parsed, 0 otherwise.
C9_TallySteps ==
    [][/\ log_lines_matching' <= total_log_lines'
       /\ total_log_lines' >= total_log_lines
       /\ log_lines_matching' >= log_lines_matching
       /\ C9Step]_vars

C10Line(l, f, r) ==
    (f.ok /\ ChannelWellFormed(f.after) /\ Len(f.after) > 5) =>
        \A p \in Payloads :
            SameOutcome(r, parse_cf_app_log(
                               Take(l, Len(l) - Len(f.after) + 5) \o p))

\* C10: two lines that are identical up to and including the channel token
\* and its separating space and differ only in their non-empty payload get
\* the same match/no-match outcome and the same component.
C10_PayloadOpaque ==
    called = "parse_cf_app_log" => C10Line(input, LineFields(input), result)

====
